---- MODULE Spec2Model ----
(***************************************************************************)
(* Model of make_factors.py: the command-line entry point, the generator   *)
(* of permuted blocks, the bit decomposition and the CSV writer.           *)
(*                                                                         *)
(* Text (command-line arguments, file names, lines of a file) is a         *)
(* sequence of tokens, one token per character except for the fixed words  *)
(* of the program (the column titles, the ".csv" suffix, the prefix).      *)
(***************************************************************************)
EXTENDS Integers, Sequences, FiniteSets, TLC

\* ---------------------------------------------------------------- bounds
\* Largest list explored: the list_length given on the command line and the
\* number of rows generated for it are at most MaxRows.
MaxRows == 10
\* Largest factor_count for which lists are generated (the program accepts
\* up to MaxFactorCount; the block of 2^factor_count values is enumerated in
\* every order, which limits what can be explored).
MaxFactors == 2
\* Largest number of command-line arguments after the program name.
MaxArgs == 4

\* ------------------------------------------------------ program constants
\* len(sys.argv) < 4
MinArgv == 4
\* factor_count < 1 or factor_count > 16
MinFactorCount == 1
MaxFactorCount == 16
\* dtype ">i4": four bytes per element, most significant byte first
ItemSize == 4
\* np.uint8 / np.unpackbits: eight bits per byte, most significant bit first
ByteBits == 8
\* {factor_num:02d}
PadWidth == 2

\* ------------------------------------------------------------------ text
Digits == <<"0", "1", "2", "3", "4", "5", "6", "7", "8", "9">>

IsDigit(c) == \E d \in 1..10 : Digits[d] = c

DigitVal(c) == (CHOOSE d \in 1..10 : Digits[d] = c) - 1

RECURSIVE NatStr(_)
\* str() of a natural number: its decimal digits, no padding
NatStr(n) == IF n < 10 THEN <<Digits[n + 1]>>
             ELSE NatStr(n \div 10) \o <<Digits[(n % 10) + 1]>>

\* f"{n}" of an integer
IntStr(n) == IF n < 0 THEN <<"-">> \o NatStr(0 - n) ELSE NatStr(n)

RECURSIVE ZeroPad(_, _)
ZeroPad(s, w) == IF Len(s) >= w THEN s ELSE ZeroPad(<<"0">> \o s, w)

\* The digits without padding.
FmtNoPad(n) == NatStr(n)

\* f"{n:02d}" of a natural number: the digits, zero-padded to two places
Fmt02d(n) == ZeroPad(NatStr(n), PadWidth)

RECURSIVE DigitsVal(_)
DigitsVal(s) == IF Len(s) = 0 THEN 0
                ELSE 10 * DigitsVal(SubSeq(s, 1, Len(s) - 1)) + DigitVal(s[Len(s)])

AllDigits(s) == Len(s) >= 1 /\ \A i \in 1..Len(s) : IsDigit(s[i])

\* int(s) succeeds: an optional sign followed by decimal digits
IsIntStr(s) == IF Len(s) >= 1 /\ s[1] \in {"-", "+"}
               THEN AllDigits(Tail(s))
               ELSE AllDigits(s)

\* int(s), for a string on which it succeeds
ParseInt(s) == IF s[1] = "-" THEN 0 - DigitsVal(Tail(s))
               ELSE IF s[1] = "+" THEN DigitsVal(Tail(s))
               ELSE DigitsVal(s)

\* ---------------------------------------------------------------- arrays
RECURSIVE Pow2(_)
\* 2**n
Pow2(n) == IF n = 0 THEN 1 ELSE 2 * Pow2(n - 1)

RECURSIVE Pow(_, _)
Pow(b, n) == IF n = 0 THEN 1 ELSE b * Pow(b, n - 1)

\* The quotient rounded down instead of up.
CeilDivFloor(a, b) == a \div b

\* int(np.ceil(a / b)) for a >= 0, b > 0
CeilDiv(a, b) == IF a % b = 0 THEN a \div b ELSE (a \div b) + 1

\* np.arange(n): 0, 1, ..., n-1
Arange(n) == [i \in 1..n |-> i - 1]

\* np.tile(row, (reps, 1)): reps rows, each a copy of row
Tile(row, reps) == [r \in 1..reps |-> row]

\* One shuffle of all the elements of x, across its rows.
PermutedAcrossRows(x) ==
    IF Len(x) = 0 THEN {x}
    ELSE LET n == Len(x[1])
             P == Permutations(1..(Len(x) * n))
         IN  {[r \in 1..Len(x) |->
                 [i \in 1..n |->
                     x[((q[(r - 1) * n + i] - 1) \div n) + 1][((q[(r - 1) * n + i] - 1) % n) + 1]]] :
                 q \in P}

\* rng.permuted(x, axis=1): every result the generator can return, each row
\* of x shuffled on its own
Permuted(x) ==
    IF Len(x) = 0 THEN {x}
    ELSE LET n == Len(x[1])
             P == Permutations(1..n)
         IN  {[r \in 1..Len(x) |-> [i \in 1..n |-> x[r][ps[r][i]]]] :
                 ps \in [1..Len(x) -> P]}

\* ndarray.flatten() of a two-dimensional array, row by row
Flatten(x) ==
    IF Len(x) = 0 THEN <<>>
    ELSE LET n == Len(x[1])
         IN  [k \in 1..(Len(x) * n) |-> x[((k - 1) \div n) + 1][((k - 1) % n) + 1]]

\* generate_shuffled_sequence(seq_range, reps): the set of its possible results
generate_shuffled_sequence(seq_range, reps) ==
    LET sequences == Tile(Arange(seq_range), reps)
    IN  {Flatten(shuffled) : shuffled \in Permuted(sequences)}

\* seq.view(np.uint8) of a ">i4" array: the bytes of every element, most
\* significant first
ViewUint8(seq) ==
    [k \in 1..(ItemSize * Len(seq)) |->
        (seq[((k - 1) \div ItemSize) + 1]
            \div Pow(Pow2(ByteBits), ItemSize - 1 - ((k - 1) % ItemSize)))
        % Pow2(ByteBits)]

\* The bits of every byte, least significant first.
UnpackBitsLittle(bytes) ==
    [k \in 1..(ByteBits * Len(bytes)) |->
        (bytes[((k - 1) \div ByteBits) + 1] \div Pow2((k - 1) % ByteBits)) % 2]

\* np.unpackbits(bytes): the bits of every byte, most significant first
UnpackBits(bytes) ==
    [k \in 1..(ByteBits * Len(bytes)) |->
        (bytes[((k - 1) \div ByteBits) + 1]
            \div Pow2(ByteBits - 1 - ((k - 1) % ByteBits))) % 2]

\* flat.reshape(rows, -1)
Reshape(flat, rows) ==
    LET cols == Len(flat) \div rows
    IN  [r \in 1..rows |-> [c \in 1..cols |-> flat[(r - 1) * cols + c]]]

\* bittify_sequence(seq)
bittify_sequence(seq) == Reshape(UnpackBits(ViewUint8(seq)), Len(seq))

\* The first n columns of every row.
FirstColumns(bits, n) == [r \in 1..Len(bits) |-> SubSeq(bits[r], 1, n)]

\* bits[:, -n:]: the last n columns of every row
LastColumns(bits, n) ==
    [r \in 1..Len(bits) |-> SubSeq(bits[r], Len(bits[r]) - n + 1, Len(bits[r]))]

\* The first column whatever j is.
ColumnZero(bits, j) == [r \in 1..Len(bits) |-> bits[r][1]]

\* bits[:, j] with Python's 0-based column j
Column(bits, j) == [r \in 1..Len(bits) |-> bits[r][j + 1]]

\* Numbers counted from 0.
randomization_numbers_from_0(n) == [i \in 1..n |-> i - 1]

\* np.arange(1, n + 1)
randomization_numbers(n) == [i \in 1..n |-> i]

\* ----------------------------------------------------------------- files
Header == <<"redcap_randomization_number", ",", "redcap_randomization_group", "\n">>

\* f"{file_prefix}_{factor_num:02d}.csv"
FileName(prefix, f) == prefix \o <<"_">> \o Fmt02d(f) \o <<".csv">>

\* f"{number},{group}\n"
DataLine(number, group) == IntStr(number) \o <<",">> \o IntStr(group) \o <<"\n">>

\* ---------------------------------------------------------------- inputs
ProgramName == <<"make_factors.py">>

NotANumber == <<"x">>

ListLengthArgs == {IntStr(n) : n \in 1..MaxRows} \cup {NotANumber}

FactorCountArgs ==
    {IntStr(n) : n \in (0..MaxFactors) \cup {MaxFactorCount + 1}} \cup {NotANumber}

PrefixArgs == {<<"out">>}

ExtraArg == <<"extra">>

\* The list asked for by the arguments l and f has at most MaxRows rows (or
\* the arguments ask for none: not numbers, factor_count out of range).
WithinMaxRows(l, f) ==
    \/ l = NotANumber
    \/ f = NotANumber
    \/ ParseInt(f) < MinFactorCount
    \/ ParseInt(f) > MaxFactorCount
    \/ Pow2(ParseInt(f)) * CeilDiv(ParseInt(l), Pow2(ParseInt(f))) <= MaxRows

\* sys.argv of a run with the first n of the arguments l, f, p, extra, ...
CommandLine(n, l, f, p) ==
    [k \in 1..(n + 1) |->
        IF k = 1 THEN ProgramName
        ELSE IF k = 2 THEN l
        ELSE IF k = 3 THEN f
        ELSE IF k = 4 THEN p
        ELSE ExtraArg]

\* The command lines explored: from no argument at all to MaxArgs arguments.
CommandLines ==
    {CommandLine(t[1], t[2], t[3], t[4]) :
        t \in {u \in (0..MaxArgs) \X ListLengthArgs \X FactorCountArgs \X PrefixArgs :
                  WithinMaxRows(u[2], u[3])}}

NoFiles == <<>>

OldContent == << <<"old", "\n">> >>

\* A directory that already holds the first output file of an earlier run
\* and a file of another name.
OldFiles(p) ==
    [n \in {FileName(p, 1), <<"notes.txt">>} |-> OldContent]

\* ----------------------------------------------------------------- state
VARIABLES
    sys_argv,       \* sys.argv; sys_argv[1] is Python's sys.argv[0]
    pc,             \* position in the script
    exit_code,      \* -1 while running, then the exit status of the process
    error,          \* "none", "usage", "range", "ValueError" or "OSError"
    list_length,    \* parsed arguments (0 / <<>> before they are parsed)
    factor_count,
    file_prefix,
    sequence,       \* result of generate_shuffled_sequence
    factor_bits,    \* result of make_factor_array
    factor_num,     \* loop variable of main
    fname,          \* name of the file of the current iteration
    linenum,        \* loop variable of the row loop
    fs,             \* the directory: file name -> sequence of lines
    fs0             \* the directory as it was when the run started

vars == <<sys_argv, pc, exit_code, error, list_length, factor_count, file_prefix,
          sequence, factor_bits, factor_num, fname, linenum, fs, fs0>>

args == <<list_length, factor_count, file_prefix>>
gen == <<sequence, factor_bits>>
loop == <<factor_num, fname, linenum>>

Init ==
    /\ sys_argv \in CommandLines
    /\ pc = "argc"
    /\ exit_code = -1
    /\ error = "none"
    /\ list_length = 0
    /\ factor_count = 0
    /\ file_prefix = <<>>
    /\ sequence = <<>>
    /\ factor_bits = <<>>
    /\ factor_num = 0
    /\ fname = <<>>
    /\ linenum = 0
    /\ fs \in {NoFiles} \cup {OldFiles(p) : p \in PrefixArgs}
    /\ fs0 = fs

\* sys.exit(code), or an uncaught exception (status 1)
Exit(code, err) ==
    /\ pc' = "exited"
    /\ exit_code' = code
    /\ error' = err

\* if len(sys.argv) < 4: usage, sys.exit(1)
CheckArgc ==
    /\ pc = "argc"
    /\ IF Len(sys_argv) < MinArgv
       THEN Exit(1, "usage")
       ELSE pc' = "parse" /\ UNCHANGED <<exit_code, error>>
    /\ UNCHANGED <<sys_argv, args, gen, loop, fs, fs0>>

\* list_length, factor_count = [int(s) for s in sys.argv[1:3]]
\* file_prefix = sys.argv[3]
ParseArgs ==
    /\ pc = "parse"
    /\ IF IsIntStr(sys_argv[2]) /\ IsIntStr(sys_argv[3])
       THEN /\ list_length' = ParseInt(sys_argv[2])
            /\ factor_count' = ParseInt(sys_argv[3])
            /\ file_prefix' = sys_argv[4]
            /\ pc' = "range"
            /\ UNCHANGED <<exit_code, error>>
       ELSE /\ Exit(1, "ValueError")
            /\ UNCHANGED args
    /\ UNCHANGED <<sys_argv, gen, loop, fs, fs0>>

\* The range check with 0 let through.
CheckRangeFromZero ==
    /\ pc = "range"
    /\ IF factor_count < 0 \/ factor_count > MaxFactorCount
       THEN Exit(1, "range")
       ELSE pc' = "main" /\ UNCHANGED <<exit_code, error>>
    /\ UNCHANGED <<sys_argv, args, gen, loop, fs, fs0>>

\* if factor_count < 1 or factor_count > 16: error, sys.exit(1)
CheckRange ==
    /\ pc = "range"
    /\ IF factor_count < MinFactorCount \/ factor_count > MaxFactorCount
       THEN Exit(1, "range")
       ELSE pc' = "main" /\ UNCHANGED <<exit_code, error>>
    /\ UNCHANGED <<sys_argv, args, gen, loop, fs, fs0>>

\* make_factor_array(list_length, factor_count): the set of its possible
\* results, each with the sequence it was cut from
make_factor_array(ll, fc) ==
    LET seq_range == Pow2(fc)
        reps == CeilDiv(ll, seq_range)
    IN  {[sequence |-> s, bits |-> LastColumns(bittify_sequence(s), fc)] :
            s \in generate_shuffled_sequence(seq_range, reps)}

\* main, up to the loop over the factors
Generate ==
    /\ pc = "main"
    /\ \E r \in make_factor_array(list_length, factor_count) :
          /\ sequence' = r.sequence
          /\ factor_bits' = r.bits
    /\ factor_num' = 1
    /\ pc' = "loop"
    /\ UNCHANGED <<sys_argv, exit_code, error, args, fname, linenum, fs, fs0>>

\* final_list_length = factor_bits.shape[0]
final_list_length == Len(factor_bits)

\* open(name, "w"): the file exists and is empty
Truncated(dir, name) ==
    [n \in (DOMAIN dir) \cup {name} |-> IF n = name THEN <<>> ELSE dir[n]]

\* out.write(line)
Written(dir, name, line) == [dir EXCEPT ![name] = Append(@, line)]

\* for factor_num in range(1, factor_count + 1): ... with open(fname, "w")
OpenFile ==
    /\ pc = "loop"
    /\ factor_num <= factor_count
    /\ fname' = FileName(file_prefix, factor_num)
    /\ fs' = Truncated(fs, fname')
    /\ pc' = "header"
    /\ UNCHANGED <<sys_argv, exit_code, error, args, gen, factor_num, linenum, fs0>>

\* A failed open skipped over: the loop goes on with the next factor.
OpenFailSkipped ==
    /\ pc = "loop"
    /\ factor_num <= factor_count
    /\ fname' = FileName(file_prefix, factor_num)
    /\ factor_num' = factor_num + 1
    /\ UNCHANGED <<sys_argv, pc, exit_code, error, args, gen, linenum, fs, fs0>>

\* open() raises: nothing is created, the exception ends the run
OpenFail ==
    /\ pc = "loop"
    /\ factor_num <= factor_count
    /\ fname' = FileName(file_prefix, factor_num)
    /\ Exit(1, "OSError")
    /\ UNCHANGED <<sys_argv, args, gen, factor_num, linenum, fs, fs0>>

\* out.write("redcap_randomization_number,redcap_randomization_group\n")
WriteHeader ==
    /\ pc = "header"
    /\ fs' = Written(fs, fname, Header)
    /\ linenum' = 0
    /\ pc' = "rows"
    /\ UNCHANGED <<sys_argv, exit_code, error, args, gen, factor_num, fname, fs0>>

\* for linenum in range(final_list_length): out.write(f"{number},{group}\n")
WriteRow ==
    /\ pc = "rows"
    /\ linenum < final_list_length
    /\ LET slice_index == factor_num - 1
           factor_assignments == Column(factor_bits, slice_index)
       IN  fs' = Written(fs, fname,
                    DataLine(randomization_numbers(final_list_length)[linenum + 1],
                             factor_assignments[linenum + 1]))
    /\ linenum' = linenum + 1
    /\ UNCHANGED <<sys_argv, pc, exit_code, error, args, gen, factor_num, fname, fs0>>

\* the with block ends: the file is closed, the next factor follows
CloseFile ==
    /\ pc = "rows"
    /\ linenum = final_list_length
    /\ factor_num' = factor_num + 1
    /\ pc' = "loop"
    /\ UNCHANGED <<sys_argv, exit_code, error, args, gen, fname, linenum, fs, fs0>>

\* A write, a flush or the close raises while the file is open: the file
\* keeps some leading part of the lines written so far, the exception ends
\* the run.
WriteFail ==
    /\ pc \in {"header", "rows"}
    /\ \E k \in 0..Len(fs[fname]) :
          fs' = [fs EXCEPT ![fname] = SubSeq(@, 1, k)]
    /\ Exit(1, "OSError")
    /\ UNCHANGED <<sys_argv, args, gen, loop, fs0>>

\* the loop is over, main returns, the script ends
Return ==
    /\ pc = "loop"
    /\ factor_num > factor_count
    /\ Exit(0, "none")
    /\ UNCHANGED <<sys_argv, args, gen, loop, fs, fs0>>

Next ==
    \/ CheckArgc
    \/ ParseArgs
    \/ CheckRange
    \/ Generate
    \/ OpenFile
    \/ OpenFail
    \/ WriteHeader
    \/ WriteRow
    \/ CloseFile
    \/ WriteFail
    \/ Return

Spec == Init /\ [][Next]_vars

\* ------------------------------------------------- reading the files back
\* The run ended with exit status 0.
Succeeded == pc = "exited" /\ exit_code = 0

\* main has called make_factor_array.
Generated == factor_num >= 1

\* Size of one block of the design.
BlockSize == Pow2(factor_count)

\* The least multiple of the block size that is not below list_length.
ActualLength ==
    CHOOSE n \in 0..(list_length + BlockSize) :
        /\ n % BlockSize = 0
        /\ n >= list_length
        /\ n - BlockSize < list_length

\* The name the specification gives to the file of factor f.
OutName(f) ==
    file_prefix \o <<"_", Digits[(f \div 10) + 1], Digits[(f % 10) + 1], ".csv">>

TitleLine == <<"redcap_randomization_number", ",", "redcap_randomization_group", "\n">>

\* A data line is <digits> "," <digits> "\n".
CommaAt(line) == CHOOSE i \in 1..Len(line) : line[i] = ","

WellFormedRow(line) ==
    /\ Len(line) >= 4
    /\ line[Len(line)] = "\n"
    /\ \E i \in 2..(Len(line) - 2) :
          /\ line[i] = ","
          /\ AllDigits(SubSeq(line, 1, i - 1))
          /\ AllDigits(SubSeq(line, i + 1, Len(line) - 1))

NumberOf(line) == DigitsVal(SubSeq(line, 1, CommaAt(line) - 1))

GroupOf(line) == DigitsVal(SubSeq(line, CommaAt(line) + 1, Len(line) - 1))

\* The data rows of the file of factor f: everything after its first line.
Rows(f) == Tail(fs[OutName(f)])

\* Bit number b (0 = least significant) of v.
BitOf(v, b) == (v \div Pow2(b)) % 2

RECURSIVE ReadAcross(_, _)
\* Row i read across the files 1..k as a binary number, file 1 first.
ReadAcross(i, k) ==
    IF k = 0 THEN 0 ELSE 2 * ReadAcross(i, k - 1) + GroupOf(Rows(k)[i])

\* The file of factor f is as a complete run leaves it.
FileComplete(f) ==
    /\ OutName(f) \in DOMAIN fs
    /\ Len(fs[OutName(f)]) = Len(sequence) + 1
    /\ fs[OutName(f)][1] = TitleLine
    /\ \A i \in 1..Len(sequence) :
          /\ WellFormedRow(Rows(f)[i])
          /\ NumberOf(Rows(f)[i]) = i
          /\ GroupOf(Rows(f)[i]) = BitOf(sequence[i], factor_count - f)

\* The file name n is as it was when the run started.
Untouched(n) ==
    /\ (n \in DOMAIN fs) <=> (n \in DOMAIN fs0)
    /\ n \in DOMAIN fs => fs[n] = fs0[n]

\* -------------------------------------------------------------------- C1
\* C1: after a successful run every one of the factor_count files holds the
\* same number N of data rows, and N is the least multiple of 2^factor_count
\* that is >= list_length.
C1_RowCount ==
    Succeeded =>
        \A f \in 1..factor_count :
            /\ OutName(f) \in DOMAIN fs
            /\ Len(Rows(f)) = ActualLength
            /\ Len(Rows(f)) % BlockSize = 0
            /\ Len(Rows(f)) >= list_length
            /\ Len(Rows(f)) - BlockSize < list_length

\* A successful run whose list_length is not a multiple of the block size and
\* needs more than one block.
C1_Witness ==
    /\ Succeeded
    /\ factor_count = 2
    /\ list_length = 5
    /\ Len(Rows(1)) = 8
    /\ Len(Rows(2)) = 8

\* -------------------------------------------------------------------- C2
\* C2: the generated sequence consists of whole blocks of seq_range values,
\* and each value of 0..seq_range-1 occurs exactly once in each block.
C2_BlocksArePermutations ==
    Generated =>
        /\ Len(sequence) % BlockSize = 0
        /\ \A b \in 0..((Len(sequence) \div BlockSize) - 1) :
              \A v \in 0..(BlockSize - 1) :
                  Cardinality({i \in 1..BlockSize : sequence[b * BlockSize + i] = v}) = 1

\* Two blocks of four, neither in ascending order and the two in different
\* orders.
C2_Witness ==
    /\ Generated
    /\ factor_count = 2
    /\ Len(sequence) = 8
    /\ SubSeq(sequence, 1, 4) # <<0, 1, 2, 3>>
    /\ SubSeq(sequence, 5, 8) # <<0, 1, 2, 3>>
    /\ SubSeq(sequence, 1, 4) # SubSeq(sequence, 5, 8)

\* -------------------------------------------------------------------- C3
\* C3: in the files of a successful run, every column (file) has as many
\* ones as zeros, namely 2^(factor_count-1) of each, in every aligned block
\* of 2^factor_count rows.
C3_ColumnBalance ==
    Succeeded =>
        \A f \in 1..factor_count :
            /\ Len(Rows(f)) % BlockSize = 0
            /\ \A b \in 0..((Len(Rows(f)) \div BlockSize) - 1) :
                  /\ Cardinality({i \in 1..BlockSize :
                        GroupOf(Rows(f)[b * BlockSize + i]) = 1}) = Pow2(factor_count - 1)
                  /\ Cardinality({i \in 1..BlockSize :
                        GroupOf(Rows(f)[b * BlockSize + i]) = 0}) = Pow2(factor_count - 1)

\* A successful run with two factors and two blocks, the first file not
\* starting with a zero.
C3_Witness ==
    /\ Succeeded
    /\ factor_count = 2
    /\ Len(Rows(1)) = 8
    /\ GroupOf(Rows(1)[1]) = 1
    /\ GroupOf(Rows(2)[5]) = 1

\* -------------------------------------------------------------------- C4
\* C4: over all rows of a successful run, every combination of factor values
\* (the row read across the files) occurs the same number of times: the
\* number of blocks, ceil(list_length / 2^factor_count).
C4_CombinationsBalanced ==
    Succeeded =>
        \A combo \in [1..factor_count -> {0, 1}] :
            LET n == Cardinality({i \in 1..Len(Rows(1)) :
                        \A f \in 1..factor_count :
                            /\ i <= Len(Rows(f))
                            /\ GroupOf(Rows(f)[i]) = combo[f]})
            IN  /\ n * BlockSize >= list_length
                /\ (n - 1) * BlockSize < list_length

\* A successful run in which every combination occurs more than once.
C4_Witness ==
    /\ Succeeded
    /\ factor_count = 2
    /\ list_length = 5
    /\ Cardinality({i \in 1..Len(Rows(1)) :
            GroupOf(Rows(1)[i]) = 1 /\ GroupOf(Rows(2)[i]) = 0}) = 2

\* -------------------------------------------------------------------- C5
\* C5: the group written at row i of file f is bit (factor_count - f) of the
\* i-th element of the sequence, so the row read across the files 1..k as a
\* big-endian binary number is that element.
C5_BitOrder ==
    Succeeded =>
        \A i \in 1..Len(sequence) :
            /\ \A f \in 1..factor_count :
                  /\ i <= Len(Rows(f))
                  /\ GroupOf(Rows(f)[i]) = BitOf(sequence[i], factor_count - f)
            /\ ReadAcross(i, factor_count) = sequence[i]

\* A successful run with two factors whose first rows tell the two bit
\* orders apart: element 2 is (1, 0) and element 1 is (0, 1).
C5_Witness ==
    /\ Succeeded
    /\ factor_count = 2
    /\ sequence[1] = 2
    /\ sequence[2] = 1
    /\ GroupOf(Rows(1)[1]) = 1
    /\ GroupOf(Rows(2)[1]) = 0

\* -------------------------------------------------------------------- C6
\* C6: in every file of a successful run the randomization numbers of the
\* data rows, top to bottom, are 1, 2, ..., N with N the actual list length.
C6_RandomizationNumbers ==
    Succeeded =>
        \A f \in 1..factor_count :
            /\ Len(Rows(f)) = ActualLength
            /\ \A i \in 1..Len(Rows(f)) :
                  /\ WellFormedRow(Rows(f)[i])
                  /\ NumberOf(Rows(f)[i]) = i

\* A successful run with ten rows, not in ascending order of the sequence.
C6_Witness ==
    /\ Succeeded
    /\ Len(Rows(1)) = 10
    /\ NumberOf(Rows(1)[10]) = 10
    /\ sequence[1] = 1

\* -------------------------------------------------------------------- C7
\* C7: a successful run with factor_count = k leaves exactly the k files
\* <prefix>_01.csv .. <prefix>_<k, two digits>.csv, pairwise distinct, and
\* changes no other file; each starts with the title line, followed by one
\* row per list entry whose group is 0 or 1.  The names the program forms
\* for the factors 1..16 are the zero-padded two-digit ones.
C7_OutputFiles ==
    Succeeded =>
        /\ Cardinality({OutName(f) : f \in 1..factor_count}) = factor_count
        /\ DOMAIN fs = (DOMAIN fs0) \cup {OutName(f) : f \in 1..factor_count}
        /\ \A n \in (DOMAIN fs) \ {OutName(f) : f \in 1..factor_count} : Untouched(n)
        /\ \A f \in 1..MaxFactorCount : FileName(file_prefix, f) = OutName(f)
        /\ \A f \in 1..factor_count :
              /\ fs[OutName(f)][1] = TitleLine
              /\ Len(Rows(f)) = ActualLength
              /\ \A i \in 1..Len(Rows(f)) :
                    /\ WellFormedRow(Rows(f)[i])
                    /\ GroupOf(Rows(f)[i]) \in {0, 1}

\* A successful run with two factors in a directory that held an old first
\* file and a file of another name.
C7_Witness ==
    /\ Succeeded
    /\ factor_count = 2
    /\ fs0 # NoFiles
    /\ fs[<<"out", "_", "0", "1", ".csv">>] # OldContent
    /\ Len(fs[<<"out", "_", "0", "2", ".csv">>]) = 9
    /\ fs[<<"notes.txt">>] = OldContent

\* -------------------------------------------------------------------- C8
\* C8 (as stated): unless there are exactly 3 arguments and factor_count is
\* in 1..16, the run exits with status 1 and generates nothing.
C8_ExactlyThreeArguments ==
    (\/ Len(sys_argv) - 1 # 3
     \/ (pc \notin {"argc", "parse"} /\ (factor_count < 1 \/ factor_count > 16)))
    => /\ ~Generated
       /\ pc # "main"
       /\ pc = "exited" => exit_code = 1 /\ error \in {"usage", "range", "ValueError"}

\* -------------------------------------------------------------------- C9
\* C9: with factor_count 0 or 17, an argument missing or a list_length or
\* factor_count that is no integer, the run ends with status 1 and no file is
\* created or changed; and no file is touched before both integers are
\* parsed and factor_count is found in range.
BadArguments ==
    \/ Len(sys_argv) - 1 < 3
    \/ sys_argv[2] = NotANumber
    \/ sys_argv[3] \in {NotANumber, <<"0">>, <<"1", "7">>}

C9_NoOutputOnBadArguments ==
    /\ BadArguments =>
          /\ fs = fs0
          /\ ~Generated
          /\ pc \in {"argc", "parse", "range", "exited"}
          /\ pc = "exited" => exit_code = 1 /\ error \in {"usage", "range", "ValueError"}
    /\ fs # fs0 =>
          /\ ~BadArguments
          /\ list_length = DigitsVal(sys_argv[2])
          /\ factor_count = DigitsVal(sys_argv[3])
          /\ factor_count >= 1
          /\ factor_count <= 16

\* A run stopped by factor_count = 0 in a directory that holds old files.
C9_Witness ==
    /\ pc = "exited"
    /\ error = "range"
    /\ sys_argv[3] = <<"0">>
    /\ fs0 # NoFiles
    /\ fs = fs0

\* ------------------------------------------------------------------- C10
\* C10: the files are written one at a time in ascending factor order: while
\* factor f is under way or has failed, the files of the factors below f are
\* complete and those of the factors above f untouched; an I/O failure ends
\* the run at once with a non-zero status, leaving file f untouched or with a
\* leading part of its lines.
IsLeadingPart(part, f) ==
    /\ Len(part) <= Len(sequence) + 1
    /\ Len(part) >= 1 => part[1] = TitleLine
    /\ \A i \in 1..(Len(part) - 1) :
          /\ NumberOf(part[i + 1]) = i
          /\ GroupOf(part[i + 1]) = BitOf(sequence[i], factor_count - f)

C10_OneFileAtATime ==
    Generated =>
        /\ \A g \in 1..factor_count :
              /\ g < factor_num => FileComplete(g)
              /\ g > factor_num => Untouched(OutName(g))
        /\ error = "OSError" =>
              /\ pc = "exited"
              /\ exit_code = 1
              /\ ~ENABLED Next
              /\ factor_num \in 1..factor_count
              /\ \/ Untouched(OutName(factor_num))
                 \/ /\ OutName(factor_num) \in DOMAIN fs
                    /\ IsLeadingPart(fs[OutName(factor_num)], factor_num)

\* A run that failed in the second of two files, after the first was written
\* whole, leaving the second with its title line and three rows.
C10_Witness ==
    /\ error = "OSError"
    /\ factor_count = 2
    /\ factor_num = 2
    /\ FileComplete(1)
    /\ OutName(2) \in DOMAIN fs
    /\ Len(fs[OutName(2)]) = 4
    /\ Len(sequence) = 8

====
